---- MODULE Spec2Model ----
(***************************************************************************)
(* The 2048 board engine (src/lib/2048.ts) and the session that the        *)
(* Game2048 component keeps around it (src/components/2048/game-2048.tsx). *)
(*                                                                         *)
(* A Board is a sequence of rows, each row a sequence of integers, indexed *)
(* from 1 (the source indexes from 0); 0 is an empty cell.                 *)
(***************************************************************************)
EXTENDS Integers, Sequences, FiniteSets, TLC

VARIABLES
    size,         \* useState(defaultSize)
    board,        \* useState(() => createEmptyBoard(defaultSize))
    score,        \* useState(0)
    status,       \* useState<Status>("playing")
    moves,        \* useState(0)
    seed,         \* useState<string>(""), a sequence of characters
    initialized,  \* useState(false)
    isRunning,    \* useState(true)
    undoStack,    \* useState([]), newest snapshot first
    rngRef,       \* useRef(Math.random): the random source in use
    call,         \* history: the last operation that ran, its inputs and outputs
    turns         \* history: successful applyMove calls, bounds the exploration

vars == <<size, board, score, status, moves, seed, initialized, isRunning,
          undoStack, rngRef, call, turns>>

Directions == {"left", "right", "up", "down"}

RECURSIVE Pow2(_)
Pow2(e) == IF e = 0 THEN 1 ELSE 2 * Pow2(e - 1)

----------------------------------------------------------------------------
(* src/lib/2048.ts: the pure board functions                               *)

createEmptyBoard(n) == [r \in 1..n |-> [c \in 1..n |-> 0]]

cloneBoard(b) == [r \in 1..Len(b) |-> [c \in 1..Len(b[r]) |-> b[r][c]]]

arraysEqual(a, b) == Len(a) = Len(b) /\ \A i \in 1..Len(a) : a[i] = b[i]

NonZero(v) == v # 0

\* a mutant of MergeLoop: a merge pushes the current tile, not the sum
RECURSIVE MergeLoopKeepsCurrent(_, _)
MergeLoopKeepsCurrent(filtered, i) ==
    IF i > Len(filtered) THEN [merged |-> <<>>, gain |-> 0]
    ELSE IF i + 1 <= Len(filtered) /\ filtered[i] = filtered[i + 1]
         THEN LET val  == filtered[i] + filtered[i + 1]
                  rest == MergeLoopKeepsCurrent(filtered, i + 2)
              IN  [merged |-> <<filtered[i]>> \o rest.merged, gain |-> val + rest.gain]
         ELSE LET rest == MergeLoopKeepsCurrent(filtered, i + 1)
              IN  [merged |-> <<filtered[i]>> \o rest.merged, gain |-> rest.gain]

\* a mutant of MergeLoop: a merge leaves one of the two tiles as it was
RECURSIVE MergeLoopKeepsOne(_, _)
MergeLoopKeepsOne(filtered, i) ==
    IF i > Len(filtered) THEN [merged |-> <<>>, gain |-> 0]
    ELSE IF i + 1 <= Len(filtered) /\ filtered[i] = filtered[i + 1]
         THEN LET val  == filtered[i] + filtered[i + 1]
                  rest == MergeLoopKeepsOne(filtered, i + 2)
              IN  [merged |-> <<filtered[i]>> \o rest.merged, gain |-> val + rest.gain]
         ELSE LET rest == MergeLoopKeepsOne(filtered, i + 1)
              IN  [merged |-> <<filtered[i]>> \o rest.merged, gain |-> rest.gain]

\* a mutant of MergeLoop: a merge gains the tile merged, not the sum
RECURSIVE MergeLoopGainsTile(_, _)
MergeLoopGainsTile(filtered, i) ==
    IF i > Len(filtered) THEN [merged |-> <<>>, gain |-> 0]
    ELSE IF i + 1 <= Len(filtered) /\ filtered[i] = filtered[i + 1]
         THEN LET val  == filtered[i] + filtered[i + 1]
                  rest == MergeLoopGainsTile(filtered, i + 2)
              IN  [merged |-> <<val>> \o rest.merged, gain |-> filtered[i] + rest.gain]
         ELSE LET rest == MergeLoopGainsTile(filtered, i + 1)
              IN  [merged |-> <<filtered[i]>> \o rest.merged, gain |-> rest.gain]

\* a mutant of MergeLoop: a tile merges with its neighbour, equal or not
RECURSIVE MergeLoopAnyNeighbour(_, _)
MergeLoopAnyNeighbour(filtered, i) ==
    IF i > Len(filtered) THEN [merged |-> <<>>, gain |-> 0]
    ELSE IF i + 1 <= Len(filtered)
         THEN LET val  == filtered[i] + filtered[i + 1]
                  rest == MergeLoopAnyNeighbour(filtered, i + 2)
              IN  [merged |-> <<val>> \o rest.merged, gain |-> val + rest.gain]
         ELSE LET rest == MergeLoopAnyNeighbour(filtered, i + 1)
              IN  [merged |-> <<filtered[i]>> \o rest.merged, gain |-> rest.gain]

\* the for loop of slideAndMergeLine from index i on: the tiles pushed onto
\* merged and the gain added
RECURSIVE MergeLoop(_, _)
MergeLoop(filtered, i) ==
    IF i > Len(filtered) THEN [merged |-> <<>>, gain |-> 0]
    ELSE IF i + 1 <= Len(filtered) /\ filtered[i] = filtered[i + 1]
         THEN LET val  == filtered[i] + filtered[i + 1]
                  rest == MergeLoop(filtered, i + 2)
              IN  [merged |-> <<val>> \o rest.merged, gain |-> val + rest.gain]
         ELSE LET rest == MergeLoop(filtered, i + 1)
              IN  [merged |-> <<filtered[i]>> \o rest.merged, gain |-> rest.gain]

\* a mutant of lineMoved: the line counts as moved when it had a zero to drop
lineMovedByZeroCount(result, line) ==
    Len(SelectSeq(line, NonZero)) # Len(line)

lineMoved(result, line) == ~arraysEqual(result, line)

\* a mutant of slideAndMergeLine: the merged tiles are merged again
slideAndMergeLineCascade(line) ==
    LET filtered == SelectSeq(line, NonZero)
        once     == MergeLoop(filtered, 1)
        twice    == MergeLoop(once.merged, 1)
        result   == twice.merged \o [k \in 1..(Len(line) - Len(twice.merged)) |-> 0]
    IN  [result |-> result, gain |-> once.gain + twice.gain,
         moved |-> lineMoved(result, line)]

slideAndMergeLine(line) ==
    LET filtered == SelectSeq(line, NonZero)
        loop     == MergeLoop(filtered, 1)
        result   == loop.merged \o [k \in 1..(Len(line) - Len(loop.merged)) |-> 0]
    IN  [result |-> result, gain |-> loop.gain, moved |-> lineMoved(result, line)]

transpose(b) ==
    LET n == Len(b) IN [c \in 1..n |-> [r \in 1..n |-> b[r][c]]]

reverseRows(b) ==
    [r \in 1..Len(b) |-> [c \in 1..Len(b[r]) |-> b[r][Len(b[r]) + 1 - c]]]

RECURSIVE SumSeq(_)
SumSeq(s) == IF s = <<>> THEN 0 ELSE Head(s) + SumSeq(Tail(s))

BoardSum(b) == SumSeq([r \in 1..Len(b) |-> SumSeq(b[r])])

\* a mutant of processLines: anyMoved is assigned, not accumulated
processLinesLastMoved(working) ==
    LET lines == [r \in 1..Len(working) |-> slideAndMergeLine(working[r])]
    IN  [processed |-> [r \in 1..Len(working) |-> lines[r].result],
         totalGain |-> SumSeq([r \in 1..Len(working) |-> lines[r].gain]),
         anyMoved  |-> lines[Len(working)].moved]

\* working.map(row => slideAndMergeLine(row)) with the two accumulators
processLines(working) ==
    LET lines == [r \in 1..Len(working) |-> slideAndMergeLine(working[r])]
    IN  [processed |-> [r \in 1..Len(working) |-> lines[r].result],
         totalGain |-> SumSeq([r \in 1..Len(working) |-> lines[r].gain]),
         anyMoved  |-> \E r \in 1..Len(working) : lines[r].moved]

\* a mutant of move: up and down are handled as left and right
moveWithoutTranspose(b, direction) ==
    LET rightward == direction \in {"right", "down"}
        working   == IF rightward THEN reverseRows(cloneBoard(b)) ELSE cloneBoard(b)
        p         == processLines(working)
    IN  [board  |-> IF rightward THEN reverseRows(p.processed) ELSE p.processed,
         gained |-> p.totalGain, moved |-> p.anyMoved]

\* a mutant of move: right and down process the lines as they are and
\* reverse the result
moveReversedAfterOnly(b, direction) ==
    IF direction \in {"left", "right"}
    THEN LET p == processLines(cloneBoard(b))
         IN  [board  |-> IF direction = "right" THEN reverseRows(p.processed)
                         ELSE p.processed,
              gained |-> p.totalGain, moved |-> p.anyMoved]
    ELSE LET p    == processLines(transpose(cloneBoard(b)))
             back == IF direction = "down" THEN reverseRows(p.processed)
                     ELSE p.processed
         IN  [board |-> transpose(back), gained |-> p.totalGain, moved |-> p.anyMoved]

\* a mutant of move: after a move down the rows are not reversed back
moveDownLeftReversed(b, direction) ==
    IF direction \in {"left", "right"}
    THEN moveWithoutTranspose(b, direction)
    ELSE LET t       == transpose(cloneBoard(b))
             working == IF direction = "down" THEN reverseRows(t) ELSE t
             p       == processLines(working)
         IN  [board |-> transpose(p.processed), gained |-> p.totalGain,
              moved |-> p.anyMoved]

move(b, direction) ==
    IF direction \in {"left", "right"}
    THEN LET working == IF direction = "right" THEN reverseRows(cloneBoard(b))
                        ELSE cloneBoard(b)
             p       == processLines(working)
         IN  [board  |-> IF direction = "right" THEN reverseRows(p.processed)
                         ELSE p.processed,
              gained |-> p.totalGain, moved |-> p.anyMoved]
    ELSE LET t       == transpose(cloneBoard(b))
             working == IF direction = "down" THEN reverseRows(t) ELSE t
             p       == processLines(working)
             back    == IF direction = "down" THEN reverseRows(p.processed)
                        ELSE p.processed
         IN  [board |-> transpose(back), gained |-> p.totalGain, moved |-> p.anyMoved]

WinTile == 2048

has2048(b) == \E r \in 1..Len(b) : \E c \in 1..Len(b[r]) : b[r][c] >= WinTile

\* a mutant of hasMoves: only the right-hand neighbour is compared
hasMovesRowsOnly(b) ==
    \/ \E r \in 1..Len(b) : \E c \in 1..Len(b[r]) : b[r][c] = 0
    \/ \E r \in 1..Len(b) : \E c \in 1..Len(b) :
           c + 1 <= Len(b) /\ b[r][c + 1] = b[r][c]

hasMoves(b) ==
    \/ \E r \in 1..Len(b) : \E c \in 1..Len(b[r]) : b[r][c] = 0
    \/ \E r \in 1..Len(b) : \E c \in 1..Len(b) :
           \/ c + 1 <= Len(b) /\ b[r][c + 1] = b[r][c]
           \/ r + 1 <= Len(b) /\ b[r + 1][c] = b[r][c]

----------------------------------------------------------------------------
(* 32-bit arithmetic.  A 32-bit pattern is a record [hi, lo] of two 16-bit *)
(* halves, since integers here are 32-bit signed and cannot hold an        *)
(* unsigned 32-bit value or its products.                                  *)

Half == Pow2(16)

Word(h, l) == [hi |-> h, lo |-> l]

RECURSIVE BitXor(_, _)
BitXor(a, b) ==
    IF a = 0 THEN b
    ELSE IF b = 0 THEN a
    ELSE 2 * BitXor(a \div 2, b \div 2) + (((a % 2) + (b % 2)) % 2)

RECURSIVE BitOr(_, _)
BitOr(a, b) ==
    IF a = 0 THEN b
    ELSE IF b = 0 THEN a
    ELSE 2 * BitOr(a \div 2, b \div 2) + (IF a % 2 = 1 \/ b % 2 = 1 THEN 1 ELSE 0)

\* x ^ y
Xor32(x, y) == Word(BitXor(x.hi, y.hi), BitXor(x.lo, y.lo))

\* x | y
Or32(x, y) == Word(BitOr(x.hi, y.hi), BitOr(x.lo, y.lo))

\* x >>> k for 0 < k < 16
Shr32(x, k) ==
    LET p == Pow2(k)
    IN  Word(x.hi \div p, ((x.hi % p) * (Half \div p)) + (x.lo \div p))

\* (x + y) mod 2^32: what ToInt32 keeps of the sum of two 32-bit values
Add32(x, y) ==
    LET l == x.lo + y.lo
    IN  Word((x.hi + y.hi + (l \div Half)) % Half, l % Half)

\* the low 32 bits of a * b for 16-bit a and b, computed without overflow
Mul16(a, b) ==
    LET x == a * (b % 256)
        y == a * (b \div 256)
        l == ((y % 256) * 256) + x
    IN  Word(((y \div 256) + (l \div Half)) % Half, l % Half)

\* Math.imul(x, y): the low 32 bits of the product
imul(x, y) ==
    LET ll    == Mul16(x.lo, y.lo)
        cross == (Mul16(x.hi, y.lo).lo + Mul16(x.lo, y.hi).lo) % Half
    IN  Word((ll.hi + cross) % Half, ll.lo)

\* n >>> 0 for an integer n of the 32-bit signed range
ToUint32(n) ==
    IF n >= 0 THEN Word(n \div Half, n % Half)
    ELSE Word(Half - 1 - ((-n - 1) \div Half), Half - 1 - ((-n - 1) % Half))

----------------------------------------------------------------------------
(* The random sources.  A value of [0,1) is k / 2^32 with k a 32-bit word. *)

\* 0x6d2b79f5
Increment == Word(27947, 31221)

\* the closure state t of createSeededRng is a JavaScript number, not a
\* 32-bit integer: top holds t div 2^32 and w holds t mod 2^32
createSeededRng(seedWord) == [kind |-> "seeded", t |-> [top |-> 0, w |-> seedWord]]

\* t div 2^32 of the first integer a JavaScript number cannot tell from its
\* successor: 2^53 = 2^21 * 2^32
ExactTop == Pow2(21)

\* s + 1 for s = [top, w]
AddOne(s) ==
    IF s.w.lo + 1 < Half THEN [top |-> s.top, w |-> Word(s.w.hi, s.w.lo + 1)]
    ELSE IF s.w.hi + 1 < Half THEN [top |-> s.top, w |-> Word(s.w.hi + 1, 0)]
    ELSE [top |-> s.top + 1, w |-> Word(0, 0)]

\* the JavaScript number nearest to the integer s, for s < 2^54: s itself
\* below 2^53, and from there on the nearest even integer, a tie going to
\* the multiple of 4 (round half to even)
RoundToNumber(s) ==
    IF s.top < ExactTop \/ s.w.lo % 2 = 0 THEN s
    ELSE IF s.w.lo % 4 = 1 THEN [top |-> s.top, w |-> Word(s.w.hi, s.w.lo - 1)]
    ELSE AddOne(s)

\* t += 0x6d2b79f5: an addition of JavaScript numbers, not of 32-bit integers
Advance(t) ==
    LET l == t.w.lo + Increment.lo
        h == t.w.hi + Increment.hi + (l \div Half)
    IN  RoundToNumber([top |-> t.top + (h \div Half), w |-> Word(h % Half, l % Half)])

\* a mutant of SeededOutput: line 12 xors where it adds
SeededOutputXorMix(t) ==
    LET tw == t.w
        r1 == imul(Xor32(tw, Shr32(tw, 15)), Or32(Word(0, 1), tw))
        r2 == Xor32(Xor32(r1, imul(Xor32(r1, Shr32(r1, 7)), Or32(Word(0, 61), r1))), r1)
    IN  Xor32(r2, Shr32(r2, 14))

\* one call of the closure: the value returned, as a word, from the new t
SeededOutput(t) ==
    LET tw == t.w
        r1 == imul(Xor32(tw, Shr32(tw, 15)), Or32(Word(0, 1), tw))
        r2 == Xor32(Add32(r1, imul(Xor32(r1, Shr32(r1, 7)), Or32(Word(0, 61), r1))), r1)
    IN  Xor32(r2, Shr32(r2, 14))

RandSteps == 2     \* Math.random() returns one of this many values of [0,1)

\* the values Math.random() is taken to return, from 0 up to just below 1
RandomWords == {Word((i * (Half - 1)) \div (RandSteps - 1), 0) : i \in 0..(RandSteps - 1)}

\* rng(): every value the source may return, with the source as it is after
\* the call (Math.random keeps no state the program can see)
Draw(rng) ==
    IF rng.kind = "random"
    THEN {[u |-> w, next |-> rng] : w \in RandomWords}
    ELSE LET t2 == Advance(rng.t)
         IN  {[u |-> SeededOutput(t2), next |-> [kind |-> "seeded", t |-> t2]]}

\* a mutant of rand: Math.round in place of Math.floor
randRounded(n, u) == ((u.hi * n) + (Half \div 2) + ((u.lo * n) \div Half)) \div Half

\* Math.floor(u * n) for u = k / 2^32
rand(n, u) == ((u.hi * n) + ((u.lo * n) \div Half)) \div Half

\* u < 0.9: k <= 0xE6666666, the largest word below 0.9 * 2^32
LessThanNineTenths(u) == u.hi < 58982 \/ (u.hi = 58982 /\ u.lo <= 26214)

\* a mutant of getEmptyCells: every cell is returned, empty or not
getEmptyCellsUnfiltered(b) ==
    LET n == Len(b)
    IN  [i \in 1..(n * n) |-> <<((i - 1) \div n) + 1, ((i - 1) % n) + 1>>]

\* the empty cells in row-major order
getEmptyCells(b) ==
    LET n     == Len(b)
        cells == [i \in 1..(n * n) |-> <<((i - 1) \div n) + 1, ((i - 1) % n) + 1>>]
        IsEmpty(p) == b[p[1]][p[2]] = 0
    IN  SelectSeq(cells, IsEmpty)

\* a mutant of spawnRandomTile: the value is drawn before the cell
spawnRandomTileValueFirst(b, rng) ==
    LET empty == getEmptyCells(b)
    IN  IF Len(empty) = 0 THEN {[board |-> b, rng |-> rng, draws |-> 0]}
        ELSE UNION {
                 {LET value == IF LessThanNineTenths(d1.u) THEN 2 ELSE 4
                      cell  == empty[rand(Len(empty), d2.u) + 1]
                  IN  [board |-> [cloneBoard(b) EXCEPT ![cell[1]][cell[2]] = value],
                       rng |-> d2.next, draws |-> 2] : d2 \in Draw(d1.next)}
                 : d1 \in Draw(rng)}

\* a mutant of spawnRandomTile: the index is drawn before the list of empty
\* cells is tested for emptiness
spawnRandomTileDrawsFirst(b, rng) ==
    LET empty == getEmptyCells(b)
    IN  UNION {
            IF Len(empty) = 0 THEN {[board |-> b, rng |-> d1.next, draws |-> 1]}
            ELSE {LET cell  == empty[rand(Len(empty), d1.u) + 1]
                      value == IF LessThanNineTenths(d2.u) THEN 2 ELSE 4
                  IN  [board |-> [cloneBoard(b) EXCEPT ![cell[1]][cell[2]] = value],
                       rng |-> d2.next, draws |-> 2] : d2 \in Draw(d1.next)}
            : d1 \in Draw(rng)}

\* spawnRandomTile(board, rng): every board it may return, with the source
\* after the call and the number of values drawn from it
spawnRandomTile(b, rng) ==
    LET empty == getEmptyCells(b)
    IN  IF Len(empty) = 0 THEN {[board |-> b, rng |-> rng, draws |-> 0]}
        ELSE UNION {
                 {LET cell  == empty[rand(Len(empty), d1.u) + 1]
                      value == IF LessThanNineTenths(d2.u) THEN 2 ELSE 4
                  IN  [board |-> [cloneBoard(b) EXCEPT ![cell[1]][cell[2]] = value],
                       rng |-> d2.next, draws |-> 2] : d2 \in Draw(d1.next)}
                 : d1 \in Draw(rng)}

\* a mutant of initializeBoard: the second spawn does not see the first
initializeBoardForgetsFirst(n, rng) ==
    UNION {{[board |-> s2.board, rng |-> s2.rng, draws |-> s1.draws + s2.draws]
              : s2 \in spawnRandomTile(createEmptyBoard(n), s1.rng)}
           : s1 \in spawnRandomTile(createEmptyBoard(n), rng)}

initializeBoard(n, rng) ==
    UNION {{[board |-> s2.board, rng |-> s2.rng, draws |-> s1.draws + s2.draws]
              : s2 \in spawnRandomTile(s1.board, s1.rng)}
           : s1 \in spawnRandomTile(createEmptyBoard(n), rng)}

----------------------------------------------------------------------------
(* Bounds of the exploration                                               *)

MaxTiles == 3      \* sparse boards of the default size carry at most this many tiles
defaultSize == 4   \* <Game2048 defaultSize={4} />
MinSize == 3       \* handleSizeChange: n >= 3, the smallest board offered
MaxSize == 8       \* handleSizeChange: n <= 8

\* the tiles put on the boards tried: the two values spawnRandomTile places
Tiles == {2, 4}

Positions(n) == (1..n) \X (1..n)

\* the n x n board with the tiles f on the positions P and nothing elsewhere
Place(n, P, f) ==
    [r \in 1..n |-> [c \in 1..n |-> IF <<r, c>> \in P THEN f[<<r, c>>] ELSE 0]]

----------------------------------------------------------------------------
(* The engine called on its own: one board, one pure call at a time        *)

\* no engine function was called by the last handler
Idle == [op |-> "none", draws |-> 0]

SessionAtConstruction ==
    /\ score = 0
    /\ status = "playing"
    /\ moves = 0
    /\ seed = <<>>
    /\ initialized = FALSE
    /\ isRunning = TRUE
    /\ undoStack = <<>>
    /\ rngRef = [kind |-> "random"]
    /\ turns = 0

\* the first row and the first column of an n x n board
Cross(n) == {p \in Positions(n) : p[1] = 1 \/ p[2] = 1}

\* the boards move is tried on: every board of the smallest size offered,
\* the boards of the default size with few tiles anywhere, and those with
\* any tiles along the first row and the first column
InitEngine ==
    /\ \/ board \in [1..MinSize -> [1..MinSize -> Tiles \cup {0}]]
       \/ \E P \in {Q \in SUBSET Positions(defaultSize) : Cardinality(Q) <= MaxTiles} :
              \E f \in [P -> Tiles] : board = Place(defaultSize, P, f)
       \/ \E P \in SUBSET Cross(defaultSize) :
              \E f \in [P -> Tiles] : board = Place(defaultSize, P, f)
    /\ size = Len(board)
    /\ call = Idle
    /\ SessionAtConstruction

CallMove(direction) ==
    /\ call' = [op |-> "move", dir |-> direction, result |-> move(board, direction)]
    /\ UNCHANGED <<size, board, score, status, moves, seed, initialized, isRunning,
                   undoStack, rngRef, turns>>

NextEngine == \E direction \in Directions : CallMove(direction)

SpecEngine == InitEngine /\ [][NextEngine]_vars

----------------------------------------------------------------------------
(* src/components/2048/game-2048.tsx: the session of Game2048.  The timer  *)
(* (seconds) and the best score kept in local storage are left out: no     *)
(* handler below reads them.                                               *)

MaxTurns == 2      \* successful moves explored after a (re)initialization
SizeBound == 3     \* the largest board size picked in the size selector
UndoDepth == 9     \* applyMove: u.slice(0, 9) keeps nine older snapshots

\* the strings typed into the seed field or given as ?seed=; the empty
\* string also stands for an absent parameter (both are falsy)
SeedInputs == {<<>>, <<"4", "2">>, <<" ", "x">>}

\* Date.now() >>> 0 at the time of the call
ClockWords == {Word(4660, 22136), Word(65535, 65535)}

IsSpace(ch) == ch = " "

Digits == <<"0", "1", "2", "3", "4", "5", "6", "7", "8", "9">>

IsDigit(ch) == \E d \in 1..Len(Digits) : Digits[d] = ch

DigitValue(ch) == (CHOOSE d \in 1..Len(Digits) : Digits[d] = ch) - 1

\* seed.trim() !== ""
TrimmedNonEmpty(str) == \E i \in 1..Len(str) : ~IsSpace(str[i])

RECURSIVE ParseDigits(_, _, _, _)
ParseDigits(str, i, acc, any) ==
    IF i <= Len(str) /\ IsDigit(str[i])
    THEN ParseDigits(str, i + 1, (10 * acc) + DigitValue(str[i]), TRUE)
    ELSE [finite |-> any, n |-> acc]

RECURSIVE SkipSpaces(_, _)
SkipSpaces(str, i) ==
    IF i <= Len(str) /\ IsSpace(str[i]) THEN SkipSpaces(str, i + 1) ELSE i

\* Number.parseInt(str, 10): leading spaces, a sign, then digits up to the
\* first other character; NaN (finite = FALSE) when there is no digit
parseInt(str) ==
    LET i    == SkipSpaces(str, 1)
        neg  == i <= Len(str) /\ str[i] = "-"
        j    == IF i <= Len(str) /\ str[i] \in {"-", "+"} THEN i + 1 ELSE i
        p    == ParseDigits(str, j, 0, FALSE)
    IN  [finite |-> p.finite, n |-> IF neg THEN 0 - p.n ELSE p.n]

\* the random sources restart and the mount effect may install for a seed
SourcesFor(str) ==
    IF TrimmedNonEmpty(str)
    THEN LET n == parseInt(str)
         IN  IF n.finite THEN {createSeededRng(ToUint32(n.n))}
             ELSE {createSeededRng(w) : w \in ClockWords}
    ELSE {[kind |-> "random"]}

\* a mutant of nextStatus: the loss test comes first
nextStatusLossFirst(next) ==
    IF ~hasMoves(next) THEN "over" ELSE IF has2048(next) THEN "won" ELSE "playing"

\* the status applyMove derives from the board after the spawn
nextStatus(next) ==
    IF has2048(next) THEN "won" ELSE IF hasMoves(next) THEN "playing" ELSE "over"

\* the state right after construction: useState and useRef initial values
AtConstruction ==
    /\ size = defaultSize
    /\ board = createEmptyBoard(defaultSize)
    /\ call = Idle
    /\ SessionAtConstruction

RECURSIVE Log2(_)
Log2(v) == IF v <= 1 THEN 0 ELSE 1 + Log2(v \div 2)

\* what a tile has added to the score of a game whose spawns were all 2s
TileScore(v) == IF v = 0 THEN 0 ELSE v * (Log2(v) - 1)

\* a crowded board late in a game: three rows that cannot move among
\* themselves under a top row that ends in a 4 after empty cells, 2s and
\* tiles one merge away from the winning tile
LateBoard(top) ==
    [r \in 1..defaultSize |->
        [c \in 1..defaultSize |->
            IF r = 1 THEN (IF c < defaultSize THEN top[c] ELSE 4)
            ELSE IF (r + c) % 2 = 0 THEN 8 ELSE 16]]

LateTiles == {0, 2, WinTile \div 2}

\* a session late in a game that no exploration from construction reaches
\* within its bounds: still playing on a crowded board, nothing to undo,
\* score and move count those of a game whose spawns were all 2s
InProgress ==
    /\ size = defaultSize
    /\ \E top \in [1..(defaultSize - 1) -> LateTiles] : board = LateBoard(top)
    /\ hasMoves(board) /\ ~has2048(board)
    /\ score = SumSeq([r \in 1..size |-> SumSeq([c \in 1..size |-> TileScore(board[r][c])])])
    /\ moves = (BoardSum(board) \div 2) - 2
    /\ status = "playing"
    /\ seed = <<>>
    /\ initialized = TRUE
    /\ isRunning = TRUE
    /\ undoStack = <<>>
    /\ rngRef = [kind |-> "random"]
    /\ call = Idle
    /\ turns = 0

Init == AtConstruction \/ InProgress

\* useEffect(..., []) on mount: reads ?seed=, installs the source, deals
\* the first board.  The catch branch (Math.random, same deal) runs only if
\* reading the URL throws, and ends in a state the try branch also reaches.
\* The effect runs before any event handler: the handlers below wait for it.
Mount(seedParam) ==
    /\ ~initialized
    /\ \E source \in SourcesFor(seedParam) :
           \E first \in initializeBoard(size, source) :
               /\ board' = first.board
               /\ rngRef' = first.rng
               /\ call' = [op |-> "mount", draws |-> first.draws]
    /\ seed' = IF seedParam # <<>> THEN seedParam ELSE seed
    /\ initialized' = TRUE
    /\ UNCHANGED <<size, score, status, moves, isRunning, undoStack, turns>>

\* a mutant of restart: the board is dealt for newSize, the size is kept
restartKeepingSize(newSize) ==
    /\ size' = size
    /\ \E source \in SourcesFor(seed) :
           \E first \in initializeBoard(newSize, source) :
               /\ board' = first.board
               /\ rngRef' = first.rng
               /\ call' = [op |-> "restart", from |-> status, draws |-> first.draws]
    /\ initialized' = TRUE
    /\ score' = 0
    /\ moves' = 0
    /\ undoStack' = <<>>
    /\ status' = "playing"
    /\ turns' = 0
    /\ UNCHANGED <<seed, isRunning>>

\* a mutant of restart: the undo stack is not cleared
restartKeepingUndo(newSize) ==
    /\ size' = newSize
    /\ \E source \in SourcesFor(seed) :
           \E first \in initializeBoard(newSize, source) :
               /\ board' = first.board
               /\ rngRef' = first.rng
               /\ call' = [op |-> "restart", from |-> status, draws |-> first.draws]
    /\ initialized' = TRUE
    /\ score' = 0
    /\ moves' = 0
    /\ status' = "playing"
    /\ turns' = 0
    /\ UNCHANGED <<seed, isRunning, undoStack>>

\* restart(newSize)
restart(newSize) ==
    /\ size' = newSize
    /\ \E source \in SourcesFor(seed) :
           \E first \in initializeBoard(newSize, source) :
               /\ board' = first.board
               /\ rngRef' = first.rng
               /\ call' = [op |-> "restart", from |-> status, draws |-> first.draws]
    /\ initialized' = TRUE
    /\ score' = 0
    /\ moves' = 0
    /\ undoStack' = <<>>
    /\ status' = "playing"
    /\ turns' = 0
    /\ UNCHANGED <<seed, isRunning>>

\* the Restart button (applySeedAndRestart) and Play again: restart(size)
ApplySeedAndRestart ==
    /\ initialized
    /\ restart(size)

\* the values the size selector hands to handleSizeChange, one digit each
SizeInputs == {<<Digits[n + 1]>> : n \in (MinSize - 1)..SizeBound}

\* handleSizeChange(val): restart(n) for a finite 3 <= n <= 8, else nothing
HandleSizeChange(val) ==
    /\ initialized
    /\ LET n == parseInt(val)
       IN  IF n.finite /\ n.n >= MinSize /\ n.n <= MaxSize
           THEN restart(n.n)
           ELSE /\ call' = Idle
                /\ UNCHANGED <<size, board, score, status, moves, seed, initialized,
                               isRunning, undoStack, rngRef, turns>>

Snapshot(b, s) == [board |-> cloneBoard(b), score |-> s]

\* a mutant of PushSnapshot: [snapshot, ...u.slice(0, 10)]
PushSnapshotKeepsTen(u, snap) ==
    <<snap>> \o SubSeq(u, 1, IF Len(u) < UndoDepth + 1 THEN Len(u) ELSE UndoDepth + 1)

\* [snapshot, ...u.slice(0, 9)]
PushSnapshot(u, snap) ==
    <<snap>> \o SubSeq(u, 1, IF Len(u) < UndoDepth THEN Len(u) ELSE UndoDepth)

NoMove(direction, passed) ==
    [op |-> "applyMove", dir |-> direction, ran |-> passed, moved |-> FALSE,
     gained |-> 0, movedBoard |-> board, draws |-> 0]

\* a mutant of applyMove: the early return does not look at isRunning
applyMoveIgnoresPause(direction) ==
    IF status # "playing"
    THEN /\ call' = NoMove(direction, FALSE)
         /\ UNCHANGED <<size, board, score, status, moves, seed, initialized,
                        isRunning, undoStack, rngRef, turns>>
    ELSE LET m == move(board, direction)
         IN  IF ~m.moved
             THEN /\ call' = NoMove(direction, TRUE)
                  /\ UNCHANGED <<size, board, score, status, moves, seed,
                                 initialized, isRunning, undoStack, rngRef, turns>>
             ELSE \E spawn \in spawnRandomTile(m.board, rngRef) :
                      /\ undoStack' = PushSnapshot(undoStack, Snapshot(board, score))
                      /\ board' = spawn.board
                      /\ rngRef' = spawn.rng
                      /\ score' = score + m.gained
                      /\ moves' = moves + 1
                      /\ status' = nextStatus(spawn.board)
                      /\ turns' = turns + 1
                      /\ call' = [op |-> "applyMove", dir |-> direction, ran |-> TRUE,
                                  moved |-> TRUE, gained |-> m.gained,
                                  movedBoard |-> m.board, draws |-> spawn.draws]
                      /\ UNCHANGED <<size, seed, initialized, isRunning>>

\* a mutant of applyMove: the early return on moved = false is missing
applyMoveAlwaysSpawns(direction) ==
    IF status # "playing" \/ ~isRunning
    THEN /\ call' = NoMove(direction, FALSE)
         /\ UNCHANGED <<size, board, score, status, moves, seed, initialized,
                        isRunning, undoStack, rngRef, turns>>
    ELSE LET m == move(board, direction)
         IN  \E spawn \in spawnRandomTile(m.board, rngRef) :
                 /\ undoStack' = PushSnapshot(undoStack, Snapshot(board, score))
                 /\ board' = spawn.board
                 /\ rngRef' = spawn.rng
                 /\ score' = score + m.gained
                 /\ moves' = moves + 1
                 /\ status' = nextStatus(spawn.board)
                 /\ turns' = turns + 1
                 /\ call' = [op |-> "applyMove", dir |-> direction, ran |-> TRUE,
                             moved |-> m.moved, gained |-> m.gained,
                             movedBoard |-> m.board, draws |-> spawn.draws]
                 /\ UNCHANGED <<size, seed, initialized, isRunning>>

\* applyMove(dir)
applyMove(direction) ==
    IF status # "playing" \/ ~isRunning
    THEN /\ call' = NoMove(direction, FALSE)
         /\ UNCHANGED <<size, board, score, status, moves, seed, initialized,
                        isRunning, undoStack, rngRef, turns>>
    ELSE LET m == move(board, direction)
         IN  IF ~m.moved
             THEN /\ call' = NoMove(direction, TRUE)
                  /\ UNCHANGED <<size, board, score, status, moves, seed,
                                 initialized, isRunning, undoStack, rngRef, turns>>
             ELSE \E spawn \in spawnRandomTile(m.board, rngRef) :
                      /\ undoStack' = PushSnapshot(undoStack, Snapshot(board, score))
                      /\ board' = spawn.board
                      /\ rngRef' = spawn.rng
                      /\ score' = score + m.gained
                      /\ moves' = moves + 1
                      /\ status' = nextStatus(spawn.board)
                      /\ turns' = turns + 1
                      /\ call' = [op |-> "applyMove", dir |-> direction, ran |-> TRUE,
                                  moved |-> TRUE, gained |-> m.gained,
                                  movedBoard |-> m.board, draws |-> spawn.draws]
                      /\ UNCHANGED <<size, seed, initialized, isRunning>>

\* a move button of Controls: onMove = applyMove; turns < MaxTurns bounds
\* the exploration, not the handler
ApplyMove(direction) ==
    /\ initialized
    /\ turns < MaxTurns
    /\ applyMove(direction)

KeyDirection(key) ==
    CASE key = "ArrowLeft"  -> "left"
      [] key = "ArrowRight" -> "right"
      [] key = "ArrowUp"    -> "up"
      [] key = "ArrowDown"  -> "down"
      [] OTHER              -> "none"

Keys == {"ArrowUp", "Enter"}

\* the keydown listener
OnKey(key) ==
    /\ initialized
    /\ turns < MaxTurns
    /\ IF KeyDirection(key) = "none" \/ ~isRunning
       THEN /\ call' = Idle
            /\ UNCHANGED <<size, board, score, status, moves, seed, initialized,
                           isRunning, undoStack, rngRef, turns>>
       ELSE applyMove(KeyDirection(key))

\* a mutant of Undo: setStatus("playing") is missing
UndoKeepsStatus ==
    /\ initialized
    /\ IF Len(undoStack) = 0
       THEN /\ call' = [op |-> "undo", from |-> status, restored |-> FALSE, draws |-> 0]
            /\ UNCHANGED <<board, score, status, undoStack>>
       ELSE /\ board' = undoStack[1].board
            /\ score' = undoStack[1].score
            /\ status' = status
            /\ undoStack' = Tail(undoStack)
            /\ call' = [op |-> "undo", from |-> status, restored |-> TRUE, draws |-> 0]
    /\ UNCHANGED <<size, moves, seed, initialized, isRunning, rngRef, turns>>

\* undo()
Undo ==
    /\ initialized
    /\ IF Len(undoStack) = 0
       THEN /\ call' = [op |-> "undo", from |-> status, restored |-> FALSE, draws |-> 0]
            /\ UNCHANGED <<board, score, status, undoStack>>
       ELSE /\ board' = undoStack[1].board
            /\ score' = undoStack[1].score
            /\ status' = "playing"
            /\ undoStack' = Tail(undoStack)
            /\ call' = [op |-> "undo", from |-> status, restored |-> TRUE, draws |-> 0]
    /\ UNCHANGED <<size, moves, seed, initialized, isRunning, rngRef, turns>>

\* the Pause / Resume button: setIsRunning(s => !s)
TogglePause ==
    /\ initialized
    /\ isRunning' = ~isRunning
    /\ call' = Idle
    /\ UNCHANGED <<size, board, score, status, moves, seed, initialized,
                   undoStack, rngRef, turns>>

\* handleSeedChange(val)
HandleSeedChange(val) ==
    /\ initialized
    /\ seed' = val
    /\ call' = Idle
    /\ UNCHANGED <<size, board, score, status, moves, initialized, isRunning,
                   undoStack, rngRef, turns>>

Next ==
    \/ \E seedParam \in SeedInputs : Mount(seedParam)
    \/ ApplySeedAndRestart
    \/ \E val \in SizeInputs : HandleSizeChange(val)
    \/ \E direction \in Directions : ApplyMove(direction)
    \/ \E key \in Keys : OnKey(key)
    \/ Undo
    \/ TogglePause
    \/ \E val \in SeedInputs : HandleSeedChange(val)

Spec == Init /\ [][Next]_vars

----------------------------------------------------------------------------
(* spawnRandomTile and initializeBoard called on their own.  board and     *)
(* rngRef hold the board and the source the next call is given, which are  *)
(* the ones the last call returned; turns counts the calls.                *)

MaxSpawns == 2     \* calls made in a row on one board

\* the integers the seeded sources are created from
SpawnSeeds == {-1, 7, 42}

\* the sizes initializeBoard is called with
DealSizes == 1..defaultSize

InitSpawn ==
    /\ \/ board \in [1..2 -> [1..2 -> Tiles \cup {0}]]
       \/ board \in [1..MinSize -> [1..MinSize -> {0, 2}]]
    /\ size = Len(board)
    /\ \/ rngRef = [kind |-> "random"]
       \/ \E n \in SpawnSeeds : rngRef = createSeededRng(ToUint32(n))
    /\ call = Idle
    /\ score = 0
    /\ status = "playing"
    /\ moves = 0
    /\ seed = <<>>
    /\ initialized = FALSE
    /\ isRunning = TRUE
    /\ undoStack = <<>>
    /\ turns = 0

\* board = spawnRandomTile(board, rng)
CallSpawn ==
    /\ turns < MaxSpawns
    /\ \E s \in spawnRandomTile(board, rngRef) :
           /\ board' = s.board
           /\ rngRef' = s.rng
           /\ call' = [op |-> "spawnRandomTile", input |-> board, source |-> rngRef,
                       draws |-> s.draws]
    /\ turns' = turns + 1
    /\ UNCHANGED <<size, score, status, moves, seed, initialized, isRunning, undoStack>>

\* board = initializeBoard(n, rng)
CallInitialize(n) ==
    /\ turns < MaxSpawns
    /\ \E s \in initializeBoard(n, rngRef) :
           /\ board' = s.board
           /\ rngRef' = s.rng
           /\ call' = [op |-> "initializeBoard", size |-> n, source |-> rngRef,
                       draws |-> s.draws]
    /\ size' = n
    /\ turns' = turns + 1
    /\ UNCHANGED <<score, status, moves, seed, initialized, isRunning, undoStack>>

NextSpawn ==
    \/ CallSpawn
    \/ \E n \in DealSizes : CallInitialize(n)

SpecSpawn == InitSpawn /\ [][NextSpawn]_vars

----------------------------------------------------------------------------
(* The seeded generator called on its own: one closure of createSeededRng, *)
(* called again and again.  rngRef holds the closure, call what the last   *)
(* call was given and returned.                                            *)

MaxCalls == 5          \* single calls followed after construction or a long run
SkipCalls == 4917755   \* the calls of one long run, taken in one step

\* the integers given to createSeededRng
GeneratorSeeds == (-10..10) \cup {42, 2147483647}

\* x + y for x, y = [top, w], exact
AddExact(x, y) ==
    LET l == x.w.lo + y.w.lo
        h == x.w.hi + y.w.hi + (l \div Half)
    IN  [top |-> x.top + y.top + (h \div Half), w |-> Word(h % Half, l % Half)]

\* n * 0x6d2b79f5, exact
RECURSIVE IncrementTimes(_)
IncrementTimes(n) ==
    IF n = 0 THEN [top |-> 0, w |-> Word(0, 0)]
    ELSE LET half == IncrementTimes(n \div 2)
             even == AddExact(half, half)
         IN  IF n % 2 = 1 THEN AddExact(even, [top |-> 0, w |-> Increment]) ELSE even

\* t after n calls of the closure, as long as every sum on the way is below
\* 2^53, where t += 0x6d2b79f5 is exact
AdvanceBy(t, n) == AddExact(t, IncrementTimes(n))

InitGenerator ==
    /\ \E n \in GeneratorSeeds :
           /\ rngRef = createSeededRng(ToUint32(n))
           /\ call = [op |-> "createSeededRng", seed |-> n, calls |-> 0, long |-> FALSE]
    /\ size = defaultSize
    /\ board = createEmptyBoard(defaultSize)
    /\ score = 0
    /\ status = "playing"
    /\ moves = 0
    /\ seed = <<>>
    /\ initialized = FALSE
    /\ isRunning = TRUE
    /\ undoStack = <<>>
    /\ turns = 0

\* rng(): one call of the closure
CallRng ==
    /\ call.calls < MaxCalls
    /\ \E d \in Draw(rngRef) :
           /\ rngRef' = d.next
           /\ call' = [op |-> "rng", prev |-> rngRef.t, u |-> d.u,
                       calls |-> call.calls + 1, long |-> call.long]
    /\ UNCHANGED <<size, board, score, status, moves, seed, initialized, isRunning,
                   undoStack, turns>>

\* SkipCalls calls of the closure in a row, their values dropped
CallRngManyTimes ==
    /\ ~call.long
    /\ AdvanceBy(rngRef.t, SkipCalls).top < ExactTop
    /\ rngRef' = [kind |-> "seeded", t |-> AdvanceBy(rngRef.t, SkipCalls)]
    /\ call' = [op |-> "rngManyTimes", prev |-> rngRef.t, calls |-> 0, long |-> TRUE]
    /\ UNCHANGED <<size, board, score, status, moves, seed, initialized, isRunning,
                   undoStack, turns>>

NextGenerator == CallRng \/ CallRngManyTimes

SpecGenerator == InitGenerator /\ [][NextGenerator]_vars

----------------------------------------------------------------------------
(* Two generators, and two sessions, side by side.  The state t of a       *)
(* generator lives in the closure createSeededRng returns; heap holds the  *)
(* t of every closure made so far and a generator is its index in heap.    *)
(* call holds the heap and the two runs; the session variables stay as     *)
(* constructed.                                                            *)

TwinTurns == 2     \* directions given to each of the two sessions

\* the seed typed into both sessions
TwinSeedTexts == {<<"4", "2">>, <<"7">>, <<"-", "1">>}

\* a mutant of createSeededRngIn: t is one variable shared by all closures
createSeededRngShared(heap, seedWord) ==
    [heap |-> <<createSeededRng(seedWord).t>>, ref |-> 1]

\* createSeededRng(seed): a new closure with its own t
createSeededRngIn(heap, seedWord) ==
    [heap |-> Append(heap, createSeededRng(seedWord).t), ref |-> Len(heap) + 1]

\* the closure ref as a random source
SourceAt(heap, ref) == [kind |-> "seeded", t |-> heap[ref]]

\* restart(newSize) of a session with a seed, as far as the board, the
\* score, the status and the source go: every outcome, with the heap after
restartIn(heap, str, newSize) ==
    UNION {
        LET made == createSeededRngIn(heap, source.t.w)
        IN  {[heap    |-> [made.heap EXCEPT ![made.ref] = first.rng.t],
              session |-> [board |-> first.board, score |-> 0, status |-> "playing",
                           rng |-> made.ref,
                           trail |-> <<[board |-> first.board, score |-> 0]>>]]
               : first \in initializeBoard(newSize, SourceAt(made.heap, made.ref))}
        : source \in {x \in SourcesFor(str) : x.kind = "seeded"}}

\* applyMove(dir) of a running session s, as far as the board, the score,
\* the status and the source go: every outcome, with the heap after
applyMoveIn(heap, s, direction) ==
    LET m    == move(s.board, direction)
        same == [s EXCEPT !.trail = Append(@, [board |-> s.board, score |-> s.score])]
    IN  IF s.status # "playing" \/ ~m.moved
        THEN {[heap |-> heap, session |-> same]}
        ELSE {[heap    |-> [heap EXCEPT ![s.rng] = spawn.rng.t],
               session |-> [board |-> spawn.board, score |-> s.score + m.gained,
                            status |-> nextStatus(spawn.board), rng |-> s.rng,
                            trail |-> Append(s.trail, [board |-> spawn.board,
                                                       score |-> s.score + m.gained])]]
                : spawn \in spawnRandomTile(m.board, SourceAt(heap, s.rng))}

\* two generators made one after the other from the same seed
TwoGenerators ==
    \E n \in GeneratorSeeds :
        LET first  == createSeededRngIn(<<>>, ToUint32(n))
            second == createSeededRngIn(first.heap, ToUint32(n))
        IN  call = [op |-> "generators", heap |-> second.heap,
                    runs |-> <<[rng |-> first.ref, trail |-> <<>>],
                               [rng |-> second.ref, trail |-> <<>>]>>,
                    dirs |-> <<>>]

\* two sessions of the default size restarted one after the other with the
\* same seed
TwoSessions ==
    \E str \in TwinSeedTexts :
        \E first \in restartIn(<<>>, str, defaultSize) :
            \E second \in restartIn(first.heap, str, defaultSize) :
                call = [op |-> "sessions", heap |-> second.heap,
                        runs |-> <<first.session, second.session>>, dirs |-> <<>>]

InitTwin ==
    /\ TwoGenerators \/ TwoSessions
    /\ size = defaultSize
    /\ board = createEmptyBoard(defaultSize)
    /\ rngRef = [kind |-> "random"]
    /\ score = 0
    /\ status = "playing"
    /\ moves = 0
    /\ seed = <<>>
    /\ initialized = FALSE
    /\ isRunning = TRUE
    /\ undoStack = <<>>
    /\ turns = 0

\* generator i is called once
CallTwin(i) ==
    /\ call.op = "generators"
    /\ Len(call.runs[i].trail) < MaxCalls
    /\ \E d \in Draw(SourceAt(call.heap, call.runs[i].rng)) :
           call' = [call EXCEPT !.heap[call.runs[i].rng] = d.next.t,
                                !.runs[i].trail = Append(@, d.u)]
    /\ UNCHANGED <<size, board, score, status, moves, seed, initialized, isRunning,
                   undoStack, rngRef, turns>>

\* session i is given its next direction: the one the other session was
\* given at that point, or any direction if this session is ahead
PlayTwin(i, direction) ==
    /\ call.op = "sessions"
    /\ LET played == Len(call.runs[i].trail) - 1
       IN  /\ played < TwinTurns
           /\ played < Len(call.dirs) => direction = call.dirs[played + 1]
           /\ \E after \in applyMoveIn(call.heap, call.runs[i], direction) :
                  call' = [call EXCEPT !.heap = after.heap,
                                       !.runs[i] = after.session,
                                       !.dirs = IF played < Len(call.dirs) THEN @
                                                ELSE Append(@, direction)]
    /\ UNCHANGED <<size, board, score, status, moves, seed, initialized, isRunning,
                   undoStack, rngRef, turns>>

NextTwin ==
    \/ \E i \in {1, 2} : CallTwin(i)
    \/ \E i \in {1, 2} : \E direction \in Directions : PlayTwin(i, direction)

SpecTwin == InitTwin /\ [][NextTwin]_vars

----------------------------------------------------------------------------
(* A session played to its end: mounted with a seed, on the default size   *)
(* or on the smallest one, the first moves free and the rest made by a     *)
(* player who takes the first direction that moves.  No undo, no restart   *)
(* once a move was made.                                                   *)

FreeTurns == 2     \* the moves of a game made in any direction

\* the ?seed= parameter of the games played out
PlaySeeds == {<<"4", "2">>, <<"7">>}

\* the order in which the player tries the directions
Preference == <<"left", "up", "right", "down">>

\* the first direction of Preference that moves b; b has one
FirstMoving(b) ==
    Preference[CHOOSE i \in 1..Len(Preference) :
                   /\ move(b, Preference[i]).moved
                   /\ \A j \in 1..(i - 1) : ~move(b, Preference[j]).moved]

\* the size selector, used before the first move: the smallest size
PickSmallest ==
    /\ moves = 0 /\ size # MinSize
    /\ HandleSizeChange(<<Digits[MinSize + 1]>>)

\* a move button, one of the first moves of the game
FreeMove(direction) ==
    /\ initialized
    /\ turns < FreeTurns
    /\ applyMove(direction)

\* a move button, pressed by the player
PlayerMove ==
    /\ initialized
    /\ turns >= FreeTurns
    /\ status = "playing"
    /\ move(board, FirstMoving(board)).moved
    /\ applyMove(FirstMoving(board))

NextPlayOut ==
    \/ \E seedParam \in PlaySeeds : Mount(seedParam)
    \/ PickSmallest
    \/ \E direction \in Directions : FreeMove(direction)
    \/ PlayerMove

SpecPlayOut == AtConstruction /\ [][NextPlayOut]_vars

----------------------------------------------------------------------------
(* A session with more moves than the undo stack holds: mounted with a     *)
(* seed, the opening made by the player who takes the first direction      *)
(* that moves, then moves in any direction; Undo at any time.              *)

OpeningMoves == 9    \* the moves of the opening
LongTurns == 12      \* the moves of the whole game

\* a move button, pressed by the player during the opening
OpeningMove ==
    /\ initialized
    /\ turns < OpeningMoves
    /\ status = "playing"
    /\ move(board, FirstMoving(board)).moved
    /\ applyMove(FirstMoving(board))

\* a move button after the opening
LateMove(direction) ==
    /\ initialized
    /\ turns >= OpeningMoves
    /\ turns < LongTurns
    /\ applyMove(direction)

NextUndo ==
    \/ \E seedParam \in PlaySeeds : Mount(seedParam)
    \/ OpeningMove
    \/ \E direction \in Directions : LateMove(direction)
    \/ Undo

SpecUndo == AtConstruction /\ [][NextUndo]_vars

----------------------------------------------------------------------------
(* Properties of move, stated on the cells and not through the transforms  *)

\* the k-th line of b read from the edge the tiles travel toward
LineAlong(b, direction, k) ==
    LET n == Len(b)
    IN  CASE direction = "left"  -> [i \in 1..n |-> b[k][i]]
          [] direction = "right" -> [i \in 1..n |-> b[k][n + 1 - i]]
          [] direction = "up"    -> [i \in 1..n |-> b[i][k]]
          [] direction = "down"  -> [i \in 1..n |-> b[n + 1 - i][k]]

MoveCalled == call.op = "move"

\* C1 as stated: the cells after a move sum to the cells before plus gained.
C1_MassPlusGained ==
    MoveCalled => BoardSum(call.result.board) = BoardSum(board) + call.result.gained

\* C1 amended: the cells after a move sum to exactly the cells before the
\* move; gained is not added to the board.
C1_MassConserved ==
    MoveCalled => BoardSum(call.result.board) = BoardSum(board)

C1_Witness == MoveCalled /\ call.result.gained > 0 /\ call.dir = "up"

\* C3: a move that reports moved = false returns the input board cell for
\* cell and gains 0.
C3_BlockedMoveNoOp ==
    (MoveCalled /\ ~call.result.moved) =>
        /\ call.result.gained = 0
        /\ Len(call.result.board) = Len(board)
        /\ \A r \in 1..Len(board) :
               /\ Len(call.result.board[r]) = Len(board[r])
               /\ \A c \in 1..Len(board[r]) : call.result.board[r][c] = board[r][c]

C3_Witness ==
    /\ MoveCalled /\ ~call.result.moved /\ call.dir = "right"
    /\ \E r \in 1..Len(board) : board[r][1] = 0
    /\ BoardSum(board) > 0

\* the tiles of out are the tiles of in taken in order, one at a time or two
\* equal neighbours at a time
TakenOnceOrInPairs(in, out) ==
    LET F == SelectSeq(in, NonZero)
        M == SelectSeq(out, NonZero)
    IN  \E take \in [1..Len(M) -> {1, 2}] :
            LET from(j) == 1 + SumSeq([i \in 1..(j - 1) |-> take[i]])
            IN  /\ from(Len(M) + 1) = Len(F) + 1
                /\ \A j \in 1..Len(M) :
                       IF take[j] = 2
                       THEN F[from(j)] = F[from(j) + 1] /\ M[j] = 2 * F[from(j)]
                       ELSE M[j] = F[from(j)]

\* C4: in every line and every direction each tile of the result is one
\* input tile or the sum of two equal neighbours of the compacted input,
\* never of three or more; 2,2,2,2 gives 4,4,0,0 and 2,0,2,2 gives 4,2,0,0.
C4_MergeOnce ==
    MoveCalled =>
        \A k \in 1..Len(board) :
            LET in  == LineAlong(board, call.dir, k)
                out == LineAlong(call.result.board, call.dir, k)
            IN  /\ TakenOnceOrInPairs(in, out)
                /\ in = <<2, 2, 2, 2>> => out = <<4, 4, 0, 0>>
                /\ in = <<2, 0, 2, 2>> => out = <<4, 2, 0, 0>>
                /\ in = <<2, 2, 2>> => out = <<4, 2, 0>>

C4_Witness ==
    /\ MoveCalled /\ call.dir = "down"
    /\ \E k \in 1..Len(board) : LineAlong(board, "right", k) = <<2, 0, 2, 2>>
    /\ \E k \in 1..Len(board) :
           /\ LineAlong(board, "down", k) = <<2, 2, 2, 2>>
           /\ LineAlong(call.result.board, "down", k) = <<4, 4, 0, 0>>

\* C5: on a board where hasMoves is false no direction moves.
C5_NoMovesNoDirection ==
    (MoveCalled /\ ~hasMoves(board)) => ~call.result.moved

C5_Witness == MoveCalled /\ ~hasMoves(board) /\ call.dir = "up"

EmptyOrAdjacentPair(b) ==
    \E p \in Positions(Len(b)) :
        \/ b[p[1]][p[2]] = 0
        \/ \E q \in Positions(Len(b)) :
               /\ b[p[1]][p[2]] = b[q[1]][q[2]]
               /\ \/ p[1] = q[1] /\ p[2] + 1 = q[2]
                  \/ p[2] = q[2] /\ p[1] + 1 = q[1]

\* C6 as stated: a board with an empty cell or two adjacent equal cells is
\* a board with hasMoves true, and some direction changes it.
C6_SomeDirectionMoves ==
    EmptyOrAdjacentPair(board) =>
        /\ hasMoves(board)
        /\ \E direction \in Directions :
               /\ move(board, direction).moved
               /\ move(board, direction).board # board

\* C6 amended: a board with at least one tile and with an empty cell or two
\* adjacent equal cells is a board with hasMoves true, and some direction
\* changes it; the all-empty board has hasMoves true and no direction moves.
C6_SomeDirectionMovesATile ==
    /\ EmptyOrAdjacentPair(board) <=> hasMoves(board)
    /\ (EmptyOrAdjacentPair(board) /\ BoardSum(board) > 0) =>
            \E direction \in Directions :
               /\ move(board, direction).moved
               /\ move(board, direction).board # board
    /\ BoardSum(board) = 0 => \A direction \in Directions : ~move(board, direction).moved

\* a full board whose only equal neighbours are one above the other
C6_Witness ==
    /\ MoveCalled /\ call.dir = "up" /\ call.result.moved
    /\ \A p \in Positions(Len(board)) : board[p[1]][p[2]] # 0
    /\ ~move(board, "left").moved

\* C7: up is left under transpose and down is right under transpose, board,
\* gained and moved alike.
C7_TransposeSymmetry ==
    /\ (MoveCalled /\ call.dir = "up") =>
           LET l == move(transpose(board), "left")
           IN  /\ call.result.board = transpose(l.board)
               /\ call.result.gained = l.gained
               /\ call.result.moved = l.moved
    /\ (MoveCalled /\ call.dir = "down") =>
           LET r == move(transpose(board), "right")
           IN  /\ call.result.board = transpose(r.board)
               /\ call.result.gained = r.gained
               /\ call.result.moved = r.moved

\* a board that is not its own transpose, moved down with a merge
C7_Witness ==
    /\ MoveCalled /\ call.dir = "down" /\ call.result.gained > 0
    /\ transpose(board) # board
    /\ call.result.board # move(board, "up").board

\* C19: move reports moved exactly when the board it returns differs from
\* the input in at least one cell, in all four directions.
C19_MovedIffBoardDiffers ==
    MoveCalled =>
        (call.result.moved <=>
            \E p \in Positions(Len(board)) :
                call.result.board[p[1]][p[2]] # board[p[1]][p[2]])

\* a move right that changes only one row, on a board that a move left
\* leaves as it is
C19_Witness ==
    /\ MoveCalled /\ call.dir = "right" /\ call.result.moved
    /\ ~move(board, "left").moved
    /\ Cardinality({r \in 1..Len(board) : call.result.board[r] # board[r]}) = 1
    /\ call.result.board[Len(board)] = board[Len(board)]

\* no empty cell lies between a tile of the line and its first cell
PackedFromFirst(line) ==
    \A i \in 1..Len(line) : \A j \in 1..Len(line) :
        (i < j /\ line[i] = 0) => line[j] = 0

\* the tiles of out are the tiles of in taken in order from the first cell,
\* two at a time wherever a tile not yet taken equals the next one, one at
\* a time elsewhere
PairedFromFirst(in, out) ==
    LET F == SelectSeq(in, NonZero)
        M == SelectSeq(out, NonZero)
    IN  \E take \in [1..Len(M) -> {1, 2}] :
            LET from(j) == 1 + SumSeq([i \in 1..(j - 1) |-> take[i]])
            IN  /\ from(Len(M) + 1) = Len(F) + 1
                /\ \A j \in 1..Len(M) :
                       IF from(j) + 1 <= Len(F) /\ F[from(j)] = F[from(j) + 1]
                       THEN take[j] = 2 /\ M[j] = 2 * F[from(j)]
                       ELSE take[j] = 1 /\ M[j] = F[from(j)]

\* C20: after a move, every line read from the edge the tiles travel
\* toward has its tiles packed against that edge, the tiles that did not
\* merge in their order, and the pairs merged starting from that edge:
\* three equal tiles x,x,x give 2x at the edge followed by x.
C20_PackedTowardTravelEdge ==
    MoveCalled =>
        \A k \in 1..Len(board) :
            LET in  == LineAlong(board, call.dir, k)
                out == LineAlong(call.result.board, call.dir, k)
            IN  /\ PackedFromFirst(out)
                /\ PairedFromFirst(in, out)
                /\ \A x \in Tiles :
                       SelectSeq(in, NonZero) = <<x, x, x>> =>
                           SelectSeq(out, NonZero) = <<2 * x, x>>

\* 2,2,2 in the first row with the empty cell at the right: moved right,
\* the pair at the right edge merges and the left 2 follows
C20_Witness ==
    /\ MoveCalled /\ call.dir = "right"
    /\ board[1] = <<2, 2, 2, 0>>
    /\ call.result.board[1] = <<0, 0, 2, 4>>
    /\ \E r \in 1..Len(board) : board[r][1] = 4 /\ call.result.board[r][Len(board)] = 4

----------------------------------------------------------------------------
(* Properties of the session                                               *)

Ended == status \in {"won", "over"}

TileCount(b) == Cardinality({p \in Positions(Len(b)) : b[p[1]][p[2]] # 0})

\* the step is a restart: a fresh board of two tiles, score, move count and
\* undo stack reset
FullReinitialization ==
    /\ call'.op = "restart"
    /\ TileCount(board') = 2
    /\ score' = 0
    /\ moves' = 0
    /\ undoStack' = <<>>

\* the step is an undo that pops the newest snapshot and restores it
UndoRestores ==
    /\ call'.op = "undo"
    /\ undoStack # <<>>
    /\ board' = undoStack[1].board
    /\ score' = undoStack[1].score
    /\ undoStack' = Tail(undoStack)

C8_SpawnAfterValidMove ==
    (call.op = "applyMove" /\ call.moved) =>
        /\ \E p \in Positions(size) : call.movedBoard[p[1]][p[2]] = 0
        /\ \E p \in Positions(size) :
               /\ call.movedBoard[p[1]][p[2]] = 0
               /\ board[p[1]][p[2]] \in {2, 4}
               /\ \A q \in Positions(size) \ {p} :
                      board[q[1]][q[2]] = call.movedBoard[q[1]][q[2]]

\* the board was full before the move and a merge made the only room
C8_Witness ==
    /\ call.op = "applyMove" /\ call.moved
    /\ TileCount(call.movedBoard) = (size * size) - 1
    /\ TileCount(board) = size * size
    /\ \E p \in Positions(size) : call.movedBoard[p[1]][p[2]] = 0 /\ board[p[1]][p[2]] = 4

\* C9: an applyMove in a direction that move reports as not moved leaves
\* board, score, move counter, undo stack and status as they were and
\* draws nothing from the random source.
C9_InvalidMoveNoTurn ==
    [][(call'.op = "applyMove" /\ ~move(board, call'.dir).moved) =>
           /\ board' = board
           /\ score' = score
           /\ moves' = moves
           /\ undoStack' = undoStack
           /\ status' = status
           /\ rngRef' = rngRef
           /\ call'.draws = 0]_vars

C9_Witness ==
    /\ call.op = "applyMove" /\ call.ran /\ ~call.moved
    /\ ~move(board, call.dir).moved
    /\ rngRef.kind = "seeded" /\ TileCount(board) > 2

\* C10: after an applyMove that moved, status is won when a cell of the
\* board after the spawn is >= 2048, also when that board has no move left;
\* over when no cell is >= 2048 and hasMoves is false; playing otherwise.
C10_WinBeforeLoss ==
    (call.op = "applyMove" /\ call.moved) =>
        status = IF \E p \in Positions(size) : board[p[1]][p[2]] >= 2048 THEN "won"
                 ELSE IF ~hasMoves(board) THEN "over"
                 ELSE "playing"

\* the winning tile appeared on a board with no move left
C10_Witness ==
    /\ call.op = "applyMove" /\ call.moved
    /\ status = "won" /\ ~hasMoves(board)

----------------------------------------------------------------------------
(* Properties of the seeded generator.  The four steps of the generator    *)
(* are written out a second time on 32-bit vectors (sequences of 32 bits,  *)
(* lowest bit first) with wraparound, independently of the half-word       *)
(* arithmetic above.                                                       *)

ToBits(x) ==
    SubSeq([i \in 1..32 |-> IF i <= 16 THEN (x.lo \div Pow2(i - 1)) % 2
                            ELSE (x.hi \div Pow2(i - 17)) % 2], 1, 32)

XorBits(a, b) == SubSeq([i \in 1..32 |-> (a[i] + b[i]) % 2], 1, 32)

OrBits(a, b) == SubSeq([i \in 1..32 |-> IF a[i] + b[i] > 0 THEN 1 ELSE 0], 1, 32)

\* a >> k
ShrBits(a, k) == SubSeq([i \in 1..32 |-> IF i + k <= 32 THEN a[i + k] ELSE 0], 1, 32)

\* the bits of the number whose binary digits, lowest first, are the counts
\* cols (each digit may exceed 1), mod 2^32
RECURSIVE Normalize(_, _, _)
Normalize(cols, i, carry) ==
    IF i > 32 THEN <<>>
    ELSE LET s == cols[i] + carry
         IN  <<s % 2>> \o Normalize(cols, i + 1, s \div 2)

\* (a + b) mod 2^32
AddBits(a, b) == Normalize(SubSeq([i \in 1..32 |-> a[i] + b[i]], 1, 32), 1, 0)

\* (a * b) mod 2^32: column i counts the pairs of set bits whose product
\* has weight 2^(i-1)
MulBits(a, b) ==
    Normalize(SubSeq([i \in 1..32 |->
                  Cardinality({j \in 1..i : a[j] = 1 /\ b[i + 1 - j] = 1})], 1, 32), 1, 0)

\* step 1: t = (t + 0x6D2B79F5) mod 2^32
StepOne(t) == AddBits(t, ToBits(Increment))

\* step 2: r = (t xor (t >> 15)) * (t | 1) mod 2^32
StepTwo(t) == MulBits(XorBits(t, ShrBits(t, 15)), OrBits(t, ToBits(Word(0, 1))))

\* (r xor (r >> 7)) * (r | 61) mod 2^32
MixTerm(r) == MulBits(XorBits(r, ShrBits(r, 7)), OrBits(r, ToBits(Word(0, 61))))

\* step 3 as the specification words it: r = (r xor mix) xor r
StepThreeXor(r) == XorBits(XorBits(r, MixTerm(r)), r)

\* step 3 with a sum in place of the inner xor: r = (r + mix) xor r
StepThreeSum(r) == XorBits(AddBits(r, MixTerm(r)), r)

\* step 4: (r xor (r >> 14)) mod 2^32, the numerator of the output
StepFour(r) == XorBits(r, ShrBits(r, 14))

RngCalled == call.op = "rng"

\* t is below 2^53, where a JavaScript number still holds every integer
StateExact == rngRef.t.top < ExactTop

\* C15 as stated: the state t of the generator is a 32-bit unsigned integer
\* at all times; it starts as seed mod 2^32 and after every call it is the
\* previous t plus 0x6D2B79F5 mod 2^32.
C15_StateIsUint32 ==
    /\ rngRef.t.top = 0
    /\ rngRef.t.w.hi \in 0..(Half - 1) /\ rngRef.t.w.lo \in 0..(Half - 1)
    /\ call.op = "createSeededRng" => ToBits(rngRef.t.w) = ToBits(ToUint32(call.seed))
    /\ RngCalled => ToBits(rngRef.t.w) = StepOne(ToBits(call.prev.w))

C17_OutputInUnitInterval ==
    RngCalled =>
        /\ call.u.hi \in 0..(Half - 1)
        /\ call.u.lo \in 0..(Half - 1)
        /\ \A n \in 1..(MaxSize * MaxSize) :
               /\ rand(n, call.u) \in 0..(n - 1)
               /\ rand(n, call.u) * Half <= (call.u.hi * n) + ((call.u.lo * n) \div Half)
               /\ (call.u.hi * n) + ((call.u.lo * n) \div Half) < (rand(n, call.u) + 1) * Half

\* a value so close to 1 that it picks the last of 64 empty cells
C17_Witness ==
    /\ RngCalled
    /\ rand(MaxSize * MaxSize, call.u) = (MaxSize * MaxSize) - 1
    /\ rngRef.t.top > 0

IsPowerOfTwo(v) == v >= 1 /\ v = Pow2(Log2(v))

\* b is an n x n grid whose every cell is 0 or a power of two >= 2
SquareOfTiles(b, n) ==
    /\ Len(b) = n
    /\ \A r \in 1..n :
           /\ Len(b[r]) = n
           /\ \A c \in 1..n : b[r][c] = 0 \/ (b[r][c] >= 2 /\ IsPowerOfTwo(b[r][c]))

\* C18: in every state of a session, from the first deal on and through
\* every move, spawn, undo and restart, the board is a size x size grid
\* whose every cell is 0 or a power of two >= 2; so are the board move
\* returned before the spawn and every board kept for undo.
C18_SquareBoardOfPowersOfTwo ==
    /\ SquareOfTiles(board, size)
    /\ (call.op = "applyMove" /\ call.moved) => SquareOfTiles(call.movedBoard, size)
    /\ \A k \in 1..Len(undoStack) : SquareOfTiles(undoStack[k].board, size)

\* a board of the smallest size with a merged 8, back on the table after
\* two moves and an undo
C18_Witness ==
    /\ call.op = "undo" /\ call.restored
    /\ size = MinSize /\ undoStack # <<>>
    /\ \E p \in Positions(size) : board[p[1]][p[2]] = 8

----------------------------------------------------------------------------
(* Properties of spawnRandomTile and initializeBoard                       *)

SpawnCalled == call.op = "spawnRandomTile"

EmptyPositions(b) == {p \in Positions(Len(b)) : b[p[1]][p[2]] = 0}

\* q comes before p when the cells are read row by row
RowMajorBefore(q, p) == q[1] < p[1] \/ (q[1] = p[1] /\ q[2] < p[2])

\* p is the empty cell of b with exactly index empty cells before it
IsEmptyCellAt(b, index, p) ==
    /\ p \in EmptyPositions(b)
    /\ Cardinality({q \in EmptyPositions(b) : RowMajorBefore(q, p)}) = index

\* index = floor(u * k) for u = (hi * 2^16 + lo) / 2^32
IsFloorOfProduct(index, u, k) ==
    LET scaled == (u.hi * k) + ((u.lo * k) \div Half)
    IN  index * Half <= scaled /\ scaled < (index + 1) * Half

\* u < 0.9, as 10 * (hi * 2^16 + lo) < 9 * 2^32
BelowNineTenths(u) == (10 * u.hi) + ((10 * u.lo) \div Half) < 9 * Half

\* the words on both sides of 0.9 * 2^32 = 3865470566.4
WordsAroundNineTenths ==
    {Word(h, l) : h \in 58981..58983, l \in {0, 26213, 26214, 26215, 26216, Half - 1}}

\* C11: spawnRandomTile on a board with k >= 1 empty cells draws exactly
\* two values u1 then u2 and returns the input with exactly one cell
\* changed: the empty cell with floor(u1 * k) empty cells before it in
\* row-major order, set to 2 if u2 < 0.9 and to 4 otherwise.
C11_SpawnOneTile ==
    /\ \A u \in WordsAroundNineTenths : LessThanNineTenths(u) <=> BelowNineTenths(u)
    /\ (SpawnCalled /\ EmptyPositions(call.input) # {}) =>
           /\ call.draws = 2
           /\ \E d1 \in Draw(call.source) : \E d2 \in Draw(d1.next) :
                  /\ rngRef = d2.next
                  /\ \E p \in Positions(Len(call.input)) :
                         /\ \E index \in 0..(Cardinality(EmptyPositions(call.input)) - 1) :
                                /\ IsFloorOfProduct(index, d1.u,
                                                    Cardinality(EmptyPositions(call.input)))
                                /\ IsEmptyCellAt(call.input, index, p)
                         /\ board[p[1]][p[2]] = IF BelowNineTenths(d2.u) THEN 2 ELSE 4
                         /\ Len(board) = Len(call.input)
                         /\ \A q \in Positions(Len(call.input)) \ {p} :
                                board[q[1]][q[2]] = call.input[q[1]][q[2]]

\* a seeded spawn of a 4 into a cell that is neither the first nor the last
\* empty cell
C11_Witness ==
    /\ SpawnCalled /\ call.source.kind = "seeded"
    /\ \E p \in EmptyPositions(call.input) :
           /\ board[p[1]][p[2]] = 4
           /\ \E q \in EmptyPositions(call.input) : RowMajorBefore(q, p)
           /\ \E q \in EmptyPositions(call.input) : RowMajorBefore(p, q)

\* C12: spawnRandomTile on a board with no empty cell returns the input
\* board and draws nothing, so the board and the source are the same after
\* any number of calls on a full board.
C12_FullBoardNoSpawn ==
    (SpawnCalled /\ EmptyPositions(call.input) = {}) =>
        /\ board = call.input
        /\ rngRef = call.source
        /\ call.draws = 0

\* the second call in a row on a full board, with a seeded source
C12_Witness ==
    /\ SpawnCalled /\ EmptyPositions(call.input) = {}
    /\ turns = MaxSpawns /\ turns >= 2
    /\ rngRef.kind = "seeded" /\ rngRef.t.top = 0 /\ call.draws = 0

\* C13: for every size >= 2 and every source, initializeBoard returns a
\* size x size board with exactly two nonzero cells, at two different
\* positions, each holding 2 or 4, and every other cell 0.
C13_TwoTilesDealt ==
    (call.op = "initializeBoard" /\ call.size >= 2) =>
        /\ Len(board) = call.size
        /\ \A r \in 1..call.size : Len(board[r]) = call.size
        /\ \E p \in Positions(call.size) : \E q \in Positions(call.size) \ {p} :
               /\ board[p[1]][p[2]] \in {2, 4}
               /\ board[q[1]][q[2]] \in {2, 4}
               /\ \A o \in Positions(call.size) \ {p, q} : board[o[1]][o[2]] = 0
        /\ call.draws = 4

\* the smallest such size, dealt from a seeded source
C13_Witness ==
    /\ call.op = "initializeBoard" /\ call.size = 2
    /\ call.source.kind = "seeded"
    /\ Cardinality(Positions(2) \ EmptyPositions(board)) = 2

----------------------------------------------------------------------------
(* Properties of two runs from the same seed                               *)

\* the two runs agree on everything both have gone through so far
TrailsAgree ==
    \A k \in 1..Len(call.runs[1].trail) :
        k <= Len(call.runs[2].trail) => call.runs[1].trail[k] = call.runs[2].trail[k]

\* C14: two generators created from the same seed return the same values
\* call for call, however their calls are interleaved; two sessions
\* restarted with the same integer seed deal the same first board
\* (initializeBoard(4, createSeededRng(42)) among them) and, given the same
\* directions, go through the same boards and scores, however their moves
\* are interleaved.
C14_SeededRunsAgree ==
    call.op \in {"generators", "sessions"} =>
        /\ call.runs[1].rng # call.runs[2].rng
        /\ TrailsAgree

\* both sessions have played all their directions on seed 42, each move
\* moved and spawned, and points were scored on the way
C14_Witness ==
    /\ call.op = "sessions"
    /\ Len(call.runs[1].trail) = TwinTurns + 1
    /\ Len(call.runs[2].trail) = TwinTurns + 1
    /\ call.runs[1].trail[1].board = call.runs[2].trail[1].board
    /\ call.runs[1].trail[TwinTurns + 1].board # call.runs[1].trail[1].board
    /\ call.runs[1].trail[TwinTurns + 1].score > 0
    /\ call.heap[call.runs[1].rng] = call.heap[call.runs[2].rng]
    /\ call.heap[call.runs[1].rng] = AdvanceBy(createSeededRng(ToUint32(42)).t, 4 + (2 * TwinTurns))

----------------------------------------------------------------------------
(* Further properties of the session (Spec).                               *)

\* C22: an applyMove called while the status is won or over, or while the
\* game is paused, leaves board, score, move counter, undo stack, status
\* and the random source as they were, and draws nothing.
C22_NoMoveWhenEndedOrPaused ==
    [][(call'.op = "applyMove" /\ (Ended \/ ~isRunning)) =>
           /\ ~call'.ran
           /\ board' = board
           /\ score' = score
           /\ moves' = moves
           /\ undoStack' = undoStack
           /\ status' = status
           /\ rngRef' = rngRef
           /\ call'.draws = 0]_vars

\* applyMove returned early in a paused game whose board would have moved
C22_Witness ==
    /\ call.op = "applyMove" /\ ~call.ran
    /\ ~isRunning /\ status = "playing"
    /\ move(board, call.dir).moved
    /\ rngRef.kind = "seeded"

\* C23: the status agrees with the board in every state of the session.
C23_StatusAgreesWithBoard ==
    /\ status = "won" => has2048(board)
    /\ status = "over" => ~has2048(board) /\ ~hasMoves(board)
    /\ status = "playing" => ~has2048(board) /\ hasMoves(board)

\* an undo took a lost game back to a board that can still be played
C23_Witness ==
    /\ call.op = "undo" /\ call.restored /\ call.from = "over"
    /\ status = "playing"
    /\ hasMoves(board) /\ ~has2048(board)

\* C26: the board is size x size, and so is every snapshot of the undo
\* stack; a restart leaves the stack empty, and the stack never holds more
\* snapshots than moves were made since the last restart, so an undo
\* restores a board of the current game and size.
C26_BoardAndSnapshotsOfSize ==
    /\ Len(board) = size
    /\ \A r \in 1..Len(board) : Len(board[r]) = size
    /\ \A i \in 1..Len(undoStack) :
           /\ Len(undoStack[i].board) = size
           /\ \A r \in 1..size : Len(undoStack[i].board[r]) = size
    /\ call.op = "restart" => undoStack = <<>> /\ moves = 0
    /\ Len(undoStack) <= moves

\* after a change to the smallest size and one move, an undo restored the
\* board that restart had dealt
C26_Witness ==
    /\ call.op = "undo" /\ call.restored
    /\ size = MinSize /\ size # defaultSize
    /\ moves = 1 /\ undoStack = <<>>
    /\ Len(board) = MinSize /\ TileCount(board) = 2

----------------------------------------------------------------------------
(* Properties of the session played to its end (SpecPlayOut).              *)

\* the score of a game that built board b from spawned 2s alone: a merge of
\* two tiles x into 2x raises it by TileScore(2x) - 2 * TileScore(x) = 2x,
\* the value of the merged tile, and sliding leaves it as it is
Potential(b) == SumSeq([r \in 1..Len(b) |-> SumSeq([c \in 1..Len(b[r]) |-> TileScore(b[r][c])])])

\* C21: in an applyMove that moved, gained is the sum of the merged tiles
\* (2x for each pair of tiles x merged, over all lines), which is what the
\* move added to the potential of the board and one merged tile per tile
\* the move removed; the score rises by exactly gained.
C21_GainedIsMergedSum ==
    [][(call'.op = "applyMove" /\ call'.moved) =>
           /\ call'.gained = Potential(call'.movedBoard) - Potential(board)
           /\ (call'.gained > 0) = (TileCount(call'.movedBoard) < TileCount(board))
           /\ call'.gained >= 4 * (TileCount(board) - TileCount(call'.movedBoard))
           /\ score' = score + call'.gained]_vars

\* a move that merged at least three pairs, one of them of tiles above 2
C21_Witness ==
    /\ call.op = "applyMove" /\ call.moved
    /\ undoStack # <<>>
    /\ TileCount(undoStack[1].board) - TileCount(call.movedBoard) >= 3
    /\ call.gained > 12
    /\ score = undoStack[1].score + call.gained

\* the moves a game of board size n can make while still playing: every
\* tile below the winning tile, four dealt, at least 2 more each turn
TurnLimit(n) == (n * n * (WinTile \div 2) - 4) \div 2

\* C25: an applyMove that moved leaves the sum of the tiles as it was up to
\* the spawn, which adds one tile of 2 or 4; so the sum is at least 4 plus
\* twice the successful moves made, every tile of a game still playing is
\* below the winning tile, and the successful moves of a game without undo
\* or restart are bounded.
C25_SumRisesUntilGameEnds ==
    [][/\ (call'.op = "applyMove" /\ call'.moved) =>
              /\ BoardSum(call'.movedBoard) = BoardSum(board)
              /\ BoardSum(board') - BoardSum(board) \in Tiles
              /\ TileCount(board') = TileCount(call'.movedBoard) + 1
       /\ initialized' => BoardSum(board') >= 4 + 2 * turns'
       /\ status' = "playing" =>
              /\ \A p \in Positions(size') : board'[p[1]][p[2]] < WinTile
              /\ turns' <= TurnLimit(size')]_vars

\* a game played until no move was left, over more than a hundred turns
C25_Witness ==
    /\ call.op = "applyMove" /\ call.moved
    /\ status = "over"
    /\ turns > 100
    /\ BoardSum(board) >= 4 + 2 * turns

----------------------------------------------------------------------------
(* Properties of the session with a long game (SpecUndo).                  *)

\* C24: the undo stack never holds more than 10 snapshots.  An applyMove
\* that moved puts the board and score from before the move on top, above
\* the snapshots there were, the oldest dropped beyond 10; one that did not
\* move leaves the stack alone.  An undo with a non-empty stack makes the
\* top snapshot the board and score and takes it off; an undo with an
\* empty stack changes nothing.
C24_UndoStackLastInFirstOut ==
    [][/\ Len(undoStack') <= 10
       /\ (call'.op = "applyMove" /\ call'.moved) =>
              /\ undoStack'[1] = [board |-> board, score |-> score]
              /\ Len(undoStack') = IF Len(undoStack) < 10 THEN Len(undoStack) + 1 ELSE 10
              /\ \A i \in 2..Len(undoStack') : undoStack'[i] = undoStack[i - 1]
       /\ (call'.op = "applyMove" /\ ~call'.moved) => undoStack' = undoStack
       /\ (call'.op = "undo" /\ undoStack # <<>>) =>
              /\ call'.restored
              /\ board' = undoStack[1].board
              /\ score' = undoStack[1].score
              /\ undoStack' = Tail(undoStack)
       /\ (call'.op = "undo" /\ undoStack = <<>>) =>
              /\ ~call'.restored
              /\ UNCHANGED <<size, board, score, status, moves, seed, initialized,
                             isRunning, undoStack, rngRef>>]_vars

\* after more than ten moves an undo took the top snapshot off a stack of
\* ten
C24_Witness ==
    /\ call.op = "undo" /\ call.restored
    /\ moves > 10
    /\ Len(undoStack) = 9

====
